---- MODULE Spec2Model ----
(***************************************************************************)
(* Model of the fintrack ledger hook (hooks/useFinance): the FinanceState  *)
(* held by each useFinance() instance, the AsyncStorage snapshot, the      *)
(* mutation handlers and the balance projection getBalanceAtDate.          *)
(*                                                                         *)
(* Dates.  The state stores dates as ISO-8601 strings (Date.toISOString);  *)
(* the projection parses them back with new Date(...).  A date string is   *)
(* modelled as the tuple <<year, month 1..12, day, hour>> and a Date       *)
(* object as the record [year, month 0..11, day, hours], ordered by        *)
(* getTime.  The time-zone offset is taken to be zero.                     *)
(*                                                                         *)
(* Amounts are integers; on integers of this size the double arithmetic of *)
(* the source is exact.  A text typed into the amount field is a sequence  *)
(* of characters, and the number parseFloat reads from it is counted in    *)
(* hundredths, the finest step the field accepts.                          *)
(*                                                                         *)
(* Screens.  The transaction form, the settings screen and the charts      *)
(* screen are modelled by what they hold and what they call on the hook.   *)
(***************************************************************************)
EXTENDS Integers, Sequences, FiniteSets, TLC

VARIABLES
    state,      \* [Hooks -> FinanceState]: the useState value of each useFinance() instance
    closure,    \* [Hooks -> FinanceState]: `state` as captured by the handlers of the last render
    storage,    \* AsyncStorage item STORAGE_KEY: Null or a JSON text
    loads,      \* [Hooks -> {"pending", "done"}]: loadData's getItem of each instance
    writes,     \* sequence of setItem calls of saveData that have not settled yet
    result,     \* the last balance query: NoResult or [hook, targetDate, value]
    calls,      \* number of mutation handlers invoked so far
    now,        \* the clock: the date string of new Date()
    form,       \* TransactionForm: the amount and description fields and the error text
    alert,      \* SettingsScreen: the title of the last Alert.alert
    file,       \* the export file in the documents directory: Null or its content
    chart       \* ChartsScreen: the stats last computed

vars == <<state, closure, storage, loads, writes, result, calls, now,
          form, alert, file, chart>>

\* what the screens hold besides the ledger
screens == <<form, alert, file, chart>>

\* null (an absent date string, an absent storage item)
Null == <<>>
\* no balance query made yet
NoResult == [hook |-> "none", targetDate |-> Null, value |-> 0]

\* TransactionForm's useState initial values
EmptyForm == [amount |-> <<>>, description |-> "", error |-> ""]
\* no Alert.alert shown yet
NoAlert == ""
\* no stats computed yet
NoStats == [hook |-> "none", timeRange |-> "", cutoffDate |-> Null,
            totalIncome |-> 0, totalExpense |-> 0, monthlyData |-> <<>>,
            savingsRate |-> <<0, 1>>]

\* ---------------------------------------------------------------- bounds
MaxTx == 2          \* longest transaction list a hook instance is grown to
MaxLen == 2         \* longest transaction list of the pure check of getBalanceAtDate
MaxWrites == 1      \* most setItem calls in flight at once
MaxCalls == 3       \* most mutation handlers invoked in one run

Hooks == {"h1", "h2"}

\* ---------------------------------------------------------------- dates
\* new Date(isoString)
NewDate(s) == [year |-> s[1], month |-> s[2] - 1, day |-> s[3], hours |-> s[4]]

\* Date.prototype.toISOString
toISOString(d) == <<d.year, d.month + 1, d.day, d.hours>>

\* Date.prototype.getTime (an order-preserving tick count: every month is
\* given 31 day slots of 24 hours)
getTime(d) == ((d.year * 12 + d.month) * 31 + (d.day - 1)) * 24 + d.hours

getFullYear(d) == d.year
getMonth(d) == d.month

D_2020_06_01 == <<2020, 6, 1, 0>>
D_2023_06_01 == <<2023, 6, 1, 0>>
D_2023_12_31 == <<2023, 12, 31, 0>>
D_2024_01_01 == <<2024, 1, 1, 0>>
D_2024_01_15 == <<2024, 1, 15, 0>>
D_2024_01_31_noon == <<2024, 1, 31, 12>>
D_2024_02_01 == <<2024, 2, 1, 0>>
D_2024_02_01_noon == <<2024, 2, 1, 12>>
D_2024_03_01 == <<2024, 3, 1, 0>>
D_2024_04_01 == <<2024, 4, 1, 0>>

\* dates given to transactions and dates projected to, in the pure check
TxDates == {D_2020_06_01, D_2023_12_31, D_2024_01_15, D_2024_01_31_noon}
TargetDates == {D_2023_06_01, D_2024_01_01, D_2024_01_31_noon, D_2024_02_01,
                D_2024_04_01}

\* ---------------------------------------------------------------- types
TransactionType == {"income", "expense"}
RecurrenceType == {"none", "monthly", "yearly"}

Transaction(id, type, amount, date, description, recurrence) ==
    [id |-> id, type |-> type, amount |-> amount, date |-> date,
     description |-> description, recurrence |-> recurrence]

FinanceState(initialBalance, initialDate, transactions, targetDate) ==
    [initialBalance |-> initialBalance, initialDate |-> initialDate,
     transactions |-> transactions, targetDate |-> targetDate]

\* useState initial value
EmptyState == FinanceState(0, Null, <<>>, Null)


\* getMonthsBetween counting completed months only
getMonthsBetween_elapsed(start, end) ==
    (getFullYear(end) - getFullYear(start)) * 12 + (getMonth(end) - getMonth(start))
        - (IF end.day < start.day THEN 1 ELSE 0)

\* ---------------------------------------------------------------- projection
getMonthsBetween(start, end) ==
    (getFullYear(end) - getFullYear(start)) * 12 + (getMonth(end) - getMonth(start))


\* getYearsBetween counting completed years only
getYearsBetween_elapsed(start, end) ==
    getFullYear(end) - getFullYear(start)
        - (IF getMonth(end) < getMonth(start) THEN 1 ELSE 0)

getYearsBetween(start, end) ==
    getFullYear(end) - getFullYear(start)


\* calculateRecurringAmount without the start month of a monthly transaction
calculateRecurringAmount_monthlyNoStart(transaction, startDate, endDate) ==
    LET amount == IF transaction.type = "income" THEN transaction.amount
                  ELSE -transaction.amount
    IN  CASE transaction.recurrence = "none" -> amount
          [] transaction.recurrence = "monthly" ->
                amount * getMonthsBetween(startDate, endDate)
          [] transaction.recurrence = "yearly" ->
                amount * (getYearsBetween(startDate, endDate) + 1)
          [] OTHER -> amount


\* calculateRecurringAmount forgetting the sign of an expense
calculateRecurringAmount_unsigned(transaction, startDate, endDate) ==
    LET amount == transaction.amount
    IN  CASE transaction.recurrence = "none" -> amount
          [] transaction.recurrence = "monthly" ->
                amount * (getMonthsBetween(startDate, endDate) + 1)
          [] transaction.recurrence = "yearly" ->
                amount * (getYearsBetween(startDate, endDate) + 1)
          [] OTHER -> amount

calculateRecurringAmount(transaction, startDate, endDate) ==
    LET amount == IF transaction.type = "income" THEN transaction.amount
                  ELSE -transaction.amount
    IN  CASE transaction.recurrence = "none" -> amount
          [] transaction.recurrence = "monthly" ->
                amount * (getMonthsBetween(startDate, endDate) + 1)
          [] transaction.recurrence = "yearly" ->
                amount * (getYearsBetween(startDate, endDate) + 1)
          [] OTHER -> amount


\* forEachCallback dropping a one-time transaction dated exactly at the target
forEachCallback_strict(balance, transaction, targetDate) ==
    LET transactionDate == NewDate(transaction.date)
    IN  IF transaction.recurrence = "none" /\ getTime(transactionDate) >= getTime(targetDate)
        THEN balance
        ELSE IF transaction.recurrence # "none"
             THEN IF getTime(transactionDate) <= getTime(targetDate)
                  THEN balance + calculateRecurringAmount(transaction, transactionDate, targetDate)
                  ELSE balance
             ELSE IF getTime(transactionDate) < getTime(targetDate)
                  THEN balance + (IF transaction.type = "income" THEN transaction.amount
                                  ELSE -transaction.amount)
                  ELSE balance


\* forEachCallback dropping a recurring transaction that starts exactly at the target
forEachCallback_recurringStrict(balance, transaction, targetDate) ==
    LET transactionDate == NewDate(transaction.date)
    IN  IF transaction.recurrence = "none" /\ getTime(transactionDate) > getTime(targetDate)
        THEN balance
        ELSE IF transaction.recurrence # "none"
             THEN IF getTime(transactionDate) < getTime(targetDate)
                  THEN balance + calculateRecurringAmount(transaction, transactionDate, targetDate)
                  ELSE balance
             ELSE IF getTime(transactionDate) <= getTime(targetDate)
                  THEN balance + (IF transaction.type = "income" THEN transaction.amount
                                  ELSE -transaction.amount)
                  ELSE balance

\* forEachCallback with `balance =` for `balance +=` on a one-time transaction
forEachCallback_assign(balance, transaction, targetDate) ==
    LET transactionDate == NewDate(transaction.date)
    IN  IF transaction.recurrence = "none" /\ getTime(transactionDate) > getTime(targetDate)
        THEN balance
        ELSE IF transaction.recurrence # "none"
             THEN IF getTime(transactionDate) <= getTime(targetDate)
                  THEN balance + calculateRecurringAmount(transaction, transactionDate, targetDate)
                  ELSE balance
             ELSE IF getTime(transactionDate) <= getTime(targetDate)
                  THEN (IF transaction.type = "income" THEN transaction.amount
                        ELSE -transaction.amount)
                  ELSE balance

\* the callback of state.transactions.forEach: the balance after one transaction
forEachCallback(balance, transaction, targetDate) ==
    LET transactionDate == NewDate(transaction.date)
    IN  IF transaction.recurrence = "none" /\ getTime(transactionDate) > getTime(targetDate)
        THEN balance
        ELSE IF transaction.recurrence # "none"
             THEN IF getTime(transactionDate) <= getTime(targetDate)
                  THEN balance + calculateRecurringAmount(transaction, transactionDate, targetDate)
                  ELSE balance
             ELSE IF getTime(transactionDate) <= getTime(targetDate)
                  THEN balance + (IF transaction.type = "income" THEN transaction.amount
                                  ELSE -transaction.amount)
                  ELSE balance

RECURSIVE forEach(_, _, _, _)
forEach(transactions, k, balance, targetDate) ==
    IF k > Len(transactions) THEN balance
    ELSE forEach(transactions, k + 1,
                 forEachCallback(balance, transactions[k], targetDate), targetDate)


\* getBalanceAtDate without the `!state.initialDate` early return
getBalanceAtDate_noGuard(st, targetDate) ==
    forEach(st.transactions, 1, st.initialBalance, targetDate)


\* getBalanceAtDate returning nothing for a target before the anchor date
getBalanceAtDate_clamped(st, targetDate) ==
    IF st.initialDate = Null
    THEN 0
    ELSE IF getTime(targetDate) < getTime(NewDate(st.initialDate))
         THEN 0
         ELSE forEach(st.transactions, 1, st.initialBalance, targetDate)

\* getBalanceAtDate projecting to the clock instead of its argument
getBalanceAtDate_readsClock(st, targetDate) ==
    IF st.initialDate = Null
    THEN 0
    ELSE forEach(st.transactions, 1, st.initialBalance, NewDate(now))

\* getBalanceAtDate projecting to the stored targetDate once one is stored
getBalanceAtDate_storedTarget(st, targetDate) ==
    IF st.initialDate = Null
    THEN 0
    ELSE forEach(st.transactions, 1, st.initialBalance,
                 IF st.targetDate = Null THEN targetDate ELSE NewDate(st.targetDate))

\* getBalanceAtDate leaving out the transactions dated before initialDate
getBalanceAtDate_sinceAnchor(st, targetDate) ==
    IF st.initialDate = Null
    THEN 0
    ELSE forEach(SelectSeq(st.transactions,
                           LAMBDA t : getTime(NewDate(t.date))
                                        >= getTime(NewDate(st.initialDate))),
                 1, st.initialBalance, targetDate)

getBalanceAtDate(st, targetDate) ==
    IF st.initialDate = Null
    THEN 0
    ELSE forEach(st.transactions, 1, st.initialBalance, targetDate)

\* ---------------------------------------------------------------- JSON
\* JSON.stringify(newState): the text is modelled as nested tuples
stringifyTransaction(t) == <<t.id, t.type, t.amount, t.date, t.description, t.recurrence>>

JSONstringify(st) ==
    <<st.initialBalance, st.initialDate,
      [k \in DOMAIN st.transactions |-> stringifyTransaction(st.transactions[k])],
      st.targetDate>>

parseTransaction(j) == Transaction(j[1], j[2], j[3], j[4], j[5], j[6])

JSONparse(data) ==
    FinanceState(data[1], data[2],
                 [k \in DOMAIN data[3] |-> parseTransaction(data[3][k])], data[4])

\* ---------------------------------------------------------------- hook
\* setState(newState) of instance h
setState(h, newState) == state' = [state EXCEPT ![h] = newState]

\* saveData(newState) up to its await: the setItem call is in flight
saveData(newState) == writes' = Append(writes, JSONstringify(newState))

\* a render of instance h: the handlers close over the current state, and
\* what the previous render computed is discarded
render(h) ==
    /\ closure[h] # state[h]
    /\ closure' = [closure EXCEPT ![h] = state[h]]
    /\ result' = IF result.hook = h THEN NoResult ELSE result
    /\ UNCHANGED <<state, storage, loads, writes, calls, now, screens>>

\* loadData restoring the transactions only
getItemResolve_transactionsOnly(h) ==
    /\ loads[h] = "pending"
    /\ loads' = [loads EXCEPT ![h] = "done"]
    /\ IF storage # Null
       THEN setState(h, [state[h] EXCEPT
                            !.transactions = JSONparse(storage).transactions])
       ELSE UNCHANGED state
    /\ UNCHANGED <<closure, storage, writes, result, calls, now, screens>>

\* loadData after `await AsyncStorage.getItem` resolves
getItemResolve(h) ==
    /\ loads[h] = "pending"
    /\ loads' = [loads EXCEPT ![h] = "done"]
    /\ IF storage # Null
       THEN setState(h, JSONparse(storage))
       ELSE UNCHANGED state
    /\ UNCHANGED <<closure, storage, writes, result, calls, now, screens>>

\* loadData when getItem rejects: the error is logged
getItemReject(h) ==
    /\ loads[h] = "pending"
    /\ loads' = [loads EXCEPT ![h] = "done"]
    /\ UNCHANGED <<state, closure, storage, writes, result, calls, now, screens>>

\* saveData after `await AsyncStorage.setItem` resolves
setItemResolve ==
    /\ writes # <<>>
    /\ storage' = Head(writes)
    /\ writes' = Tail(writes)
    /\ UNCHANGED <<state, closure, loads, result, calls, now, screens>>

\* saveData that puts every instance back on the stored ledger when setItem rejects
setItemReject_rollback ==
    /\ writes # <<>>
    /\ writes' = Tail(writes)
    /\ state' = [h \in Hooks |->
                    IF storage = Null THEN EmptyState ELSE JSONparse(storage)]
    /\ UNCHANGED <<closure, storage, loads, result, calls, now, screens>>

\* saveData when setItem rejects: the error is logged
setItemReject ==
    /\ writes # <<>>
    /\ writes' = Tail(writes)
    /\ UNCHANGED <<state, closure, storage, loads, result, calls, now, screens>>

\* generateId(): a random prefix followed by Date.now().  Two handler calls are
\* at least a millisecond apart, so the suffix differs from call to call; the
\* id is modelled as the number of the call
\* generateId() from a clock too coarse to tell two consecutive calls apart
generateId_coarse == (calls \div 2) + 1

generateId == calls + 1

\* addTransaction putting the new transaction first
addTransaction_prepend(h, transaction) ==
    /\ calls < MaxCalls
    /\ calls' = calls + 1
    /\ Len(closure[h].transactions) < MaxTx
    /\ Len(writes) < MaxWrites
    /\ LET newTransaction == [transaction EXCEPT !.id = generateId]
           newState == [closure[h] EXCEPT
                            !.transactions = <<newTransaction>> \o closure[h].transactions]
       IN  /\ setState(h, newState)
           /\ saveData(newState)
    /\ UNCHANGED <<closure, storage, loads, result, now>>

addTransaction(h, transaction) ==
    /\ calls < MaxCalls
    /\ calls' = calls + 1
    /\ Len(closure[h].transactions) < MaxTx
    /\ Len(writes) < MaxWrites
    /\ LET newTransaction == [transaction EXCEPT !.id = generateId]
           newState == [closure[h] EXCEPT
                            !.transactions = Append(closure[h].transactions, newTransaction)]
       IN  /\ setState(h, newState)
           /\ saveData(newState)
    /\ UNCHANGED <<closure, storage, loads, result, now>>

\* transactions.filter(t => t.id !== id)
\* the filter keeping what it should drop
filter_inverted(transactions, id) ==
    SelectSeq(transactions, LAMBDA t : t.id = id)

\* removal by splice(findIndex(...), 1): an index of -1 removes the last element
filter_splice(transactions, id) ==
    IF \E k \in DOMAIN transactions : transactions[k].id = id
    THEN SelectSeq(transactions, LAMBDA t : t.id # id)
    ELSE SubSeq(transactions, 1, Len(transactions) - 1)

filter(transactions, id) ==
    SelectSeq(transactions, LAMBDA t : t.id # id)

deleteTransaction(h, id) ==
    /\ calls < MaxCalls
    /\ calls' = calls + 1
    /\ Len(writes) < MaxWrites
    /\ LET newState == [closure[h] EXCEPT
                            !.transactions = filter(closure[h].transactions, id)]
       IN  /\ setState(h, newState)
           /\ saveData(newState)
    /\ UNCHANGED <<closure, storage, loads, result, now>>

\* setInitialBalance that sets the anchor only while none is set
setInitialBalance_once(h, balance, date) ==
    /\ calls < MaxCalls
    /\ calls' = calls + 1
    /\ Len(writes) < MaxWrites
    /\ LET newState == IF closure[h].initialDate = Null
                       THEN [closure[h] EXCEPT !.initialBalance = balance,
                                               !.initialDate = date]
                       ELSE closure[h]
       IN  /\ setState(h, newState)
           /\ saveData(newState)
    /\ UNCHANGED <<closure, storage, loads, result, now>>

setInitialBalance(h, balance, date) ==
    /\ calls < MaxCalls
    /\ calls' = calls + 1
    /\ Len(writes) < MaxWrites
    /\ LET newState == [closure[h] EXCEPT !.initialBalance = balance,
                                          !.initialDate = date]
       IN  /\ setState(h, newState)
           /\ saveData(newState)
    /\ UNCHANGED <<closure, storage, loads, result, now>>

setTargetDate(h, date) ==
    /\ calls < MaxCalls
    /\ calls' = calls + 1
    /\ Len(writes) < MaxWrites
    /\ LET newState == [closure[h] EXCEPT !.targetDate = date]
       IN  /\ setState(h, newState)
           /\ saveData(newState)
    /\ UNCHANGED <<closure, storage, loads, result, now>>

\* clearAllData that clears the transactions and keeps the anchor
clearAllData_keepAnchor(h) ==
    /\ calls < MaxCalls
    /\ calls' = calls + 1
    /\ Len(writes) < MaxWrites
    /\ LET newState == [closure[h] EXCEPT !.transactions = <<>>]
       IN  /\ setState(h, newState)
           /\ saveData(newState)
    /\ UNCHANGED <<closure, storage, loads, result, now>>

clearAllData(h) ==
    /\ calls < MaxCalls
    /\ calls' = calls + 1
    /\ Len(writes) < MaxWrites
    /\ LET newState == FinanceState(0, Null, <<>>, Null)
       IN  /\ setState(h, newState)
           /\ saveData(newState)
    /\ UNCHANGED <<closure, storage, loads, result, now>>

\* ---------------------------------------------------------------- queries
getProjectedBalance(h, date) ==
    /\ result' = [hook |-> h, targetDate |-> date,
                  value |-> getBalanceAtDate(closure[h], NewDate(date))]
    /\ UNCHANGED <<state, closure, storage, loads, writes, calls, now, screens>>

\* getBalanceAtDate(new Date())
getCurrentBalance(h) == getProjectedBalance(h, now)

\* time passes
Tick(later) ==
    /\ getTime(NewDate(later)) > getTime(NewDate(now))
    /\ now' = later
    /\ UNCHANGED <<state, closure, storage, loads, writes, result, calls, screens>>

\* ---------------------------------------------------------------- form
\* A text field holds the sequence of its characters.  Numbers read from the
\* amount field are counted in hundredths, the finest step the field accepts.
Digits == {"0", "1", "2", "3", "4", "5", "6", "7", "8", "9"}

digitValue(c) ==
    CASE c = "0" -> 0 [] c = "1" -> 1 [] c = "2" -> 2 [] c = "3" -> 3 [] c = "4" -> 4
      [] c = "5" -> 5 [] c = "6" -> 6 [] c = "7" -> 7 [] c = "8" -> 8 [] c = "9" -> 9

\* how many digits the text starts with
RECURSIVE leadingDigits(_)
leadingDigits(text) ==
    IF text = <<>> \/ Head(text) \notin Digits
    THEN 0
    ELSE 1 + leadingDigits(Tail(text))

\* the number written by a sequence of digits
RECURSIVE digitsValue(_)
digitsValue(text) ==
    IF text = <<>>
    THEN 0
    ELSE digitsValue(SubSeq(text, 1, Len(text) - 1)) * 10 + digitValue(text[Len(text)])

\* /^\d*\.?\d{0,2}$/.test(text)
regexTest(text) ==
    LET n == leadingDigits(text)
        rest == SubSeq(text, n + 1, Len(text))
    IN  \/ rest = <<>>
        \/ /\ Head(rest) = "."
           /\ Len(rest) - 1 <= 2
           /\ leadingDigits(Tail(rest)) = Len(rest) - 1

NaN == [nan |-> TRUE, value |-> 0]

isNaN(x) == x.nan

\* parseFloat(text): the longest prefix that is a decimal numeral (sign,
\* digits, point, digits), NaN when that prefix has no digit; decimals past
\* the second are not kept
parseFloat(text) ==
    LET negative == text # <<>> /\ Head(text) = "-"
        body == IF negative THEN Tail(text) ELSE text
        n == leadingDigits(body)
        rest == SubSeq(body, n + 1, Len(body))
        decimals == IF rest # <<>> /\ Head(rest) = "." THEN Tail(rest) ELSE <<>>
        m == leadingDigits(decimals)
        hundredths ==
            100 * digitsValue(SubSeq(body, 1, n))
                + (IF m >= 1 THEN 10 * digitValue(decimals[1]) ELSE 0)
                + (IF m >= 2 THEN digitValue(decimals[2]) ELSE 0)
    IN  IF n + m = 0
        THEN NaN
        ELSE [nan |-> FALSE, value |-> IF negative THEN -hundredths ELSE hundredths]

\* onChangeText of the amount field
onChangeAmount(text) ==
    /\ form' = IF text = <<>> \/ regexTest(text)
               THEN [form EXCEPT !.amount = text, !.error = ""]
               ELSE form
    /\ UNCHANGED <<state, closure, storage, loads, writes, result, calls, now,
                   alert, file, chart>>

\* onChangeText of the description field
onChangeDescription(text) ==
    /\ form' = [form EXCEPT !.description = text, !.error = ""]
    /\ UNCHANGED <<state, closure, storage, loads, writes, result, calls, now,
                   alert, file, chart>>

\* handleSubmit without the check of the description
handleSubmit_amountOnly(h, type, date, recurrence) ==
    IF form.amount = <<>>
    THEN /\ form' = [form EXCEPT !.error = "Please fill in all fields"]
         /\ UNCHANGED <<state, closure, storage, loads, writes, result, calls, now,
                        alert, file, chart>>
    ELSE LET parsedAmount == parseFloat(form.amount)
         IN  IF isNaN(parsedAmount) \/ parsedAmount.value <= 0
             THEN /\ form' = [form EXCEPT !.error = "Please enter a valid positive amount"]
                  /\ UNCHANGED <<state, closure, storage, loads, writes, result, calls,
                                 now, alert, file, chart>>
             ELSE /\ addTransaction(h, Transaction(0, type, parsedAmount.value,
                                                   toISOString(date), form.description,
                                                   recurrence))
                  /\ form' = EmptyForm
                  /\ UNCHANGED <<alert, file, chart>>

\* handleSubmit turning away negative amounts only
handleSubmit_allowsZero(h, type, date, recurrence) ==
    IF form.amount = <<>> \/ form.description = ""
    THEN /\ form' = [form EXCEPT !.error = "Please fill in all fields"]
         /\ UNCHANGED <<state, closure, storage, loads, writes, result, calls, now,
                        alert, file, chart>>
    ELSE LET parsedAmount == parseFloat(form.amount)
         IN  IF isNaN(parsedAmount) \/ parsedAmount.value < 0
             THEN /\ form' = [form EXCEPT !.error = "Please enter a valid positive amount"]
                  /\ UNCHANGED <<state, closure, storage, loads, writes, result, calls,
                                 now, alert, file, chart>>
             ELSE /\ addTransaction(h, Transaction(0, type, parsedAmount.value,
                                                   toISOString(date), form.description,
                                                   recurrence))
                  /\ form' = EmptyForm
                  /\ UNCHANGED <<alert, file, chart>>

\* handleSubmit; type, date and recurrence are what the form's pickers hold.
\* The reset of the fields, which the source does once addTransaction has
\* returned, is part of the step
handleSubmit(h, type, date, recurrence) ==
    IF form.amount = <<>> \/ form.description = ""
    THEN /\ form' = [form EXCEPT !.error = "Please fill in all fields"]
         /\ UNCHANGED <<state, closure, storage, loads, writes, result, calls, now,
                        alert, file, chart>>
    ELSE LET parsedAmount == parseFloat(form.amount)
         IN  IF isNaN(parsedAmount) \/ parsedAmount.value <= 0
             THEN /\ form' = [form EXCEPT !.error = "Please enter a valid positive amount"]
                  /\ UNCHANGED <<state, closure, storage, loads, writes, result, calls,
                                 now, alert, file, chart>>
             ELSE /\ addTransaction(h, Transaction(0, type, parsedAmount.value,
                                                   toISOString(date), form.description,
                                                   recurrence))
                  /\ form' = EmptyForm
                  /\ UNCHANGED <<alert, file, chart>>

\* ---------------------------------------------------------------- settings
\* the members of the object useFinance returns
useFinance ==
    {"initialBalance", "initialDate", "targetDate", "transactions", "currentBalance",
     "getProjectedBalance", "addTransaction", "deleteTransaction", "setInitialBalance",
     "setTargetDate", "clearAllData"}

\* handleClearData.  SettingsScreen takes transactions and clearTransactions
\* from useFinance().  A member the returned object lacks is undefined, and the
\* call of undefined throws a TypeError, which the catch turns into an alert
handleClearData(h) ==
    IF "clearTransactions" \in useFinance
    THEN /\ clearAllData(h)
         /\ alert' = "Success"
         /\ UNCHANGED <<form, file, chart>>
    ELSE /\ alert' = "Error"
         /\ UNCHANGED <<state, closure, storage, loads, writes, result, calls, now,
                        form, file, chart>>

\* the object handleExportData builds from the transactions of the render
exportData(transactions) ==
    [transactions |->
        [k \in DOMAIN transactions |->
            [id |-> transactions[k].id,
             type |-> transactions[k].type,
             amount |-> transactions[k].amount,
             date |-> toISOString(NewDate(transactions[k].date)),
             description |-> transactions[k].description,
             recurrence |-> transactions[k].recurrence,
             createdAt |-> toISOString(NewDate(now))]],
     exportDate |-> toISOString(NewDate(now)),
     appVersion |-> "1.0.0"]

\* finance_tracker_export_<date part of the clock>.json
fileName == <<"finance_tracker_export", SubSeq(toISOString(NewDate(now)), 1, 3)>>

\* an export that removes the stored item when the file cannot be written
handleExportData_removesItem(h, written) ==
    IF written
    THEN /\ file' = [name |-> fileName, dataStr |-> exportData(closure[h].transactions)]
         /\ alert' = "Export Successful"
         /\ UNCHANGED <<state, closure, storage, loads, writes, result, calls, now,
                        form, chart>>
    ELSE /\ alert' = "Export Failed"
         /\ storage' = Null
         /\ UNCHANGED <<state, closure, loads, writes, result, calls, now,
                        form, file, chart>>

\* handleExportData; written tells whether FileSystem.writeAsStringAsync
\* resolves or rejects
handleExportData(h, written) ==
    IF written
    THEN /\ file' = [name |-> fileName, dataStr |-> exportData(closure[h].transactions)]
         /\ alert' = "Export Successful"
         /\ UNCHANGED <<state, closure, storage, loads, writes, result, calls, now,
                        form, chart>>
    ELSE /\ alert' = "Export Failed"
         /\ UNCHANGED <<state, closure, storage, loads, writes, result, calls, now,
                        form, file, chart>>

\* ---------------------------------------------------------------- charts
\* the number of days of a month (0-based) of a year
daysInMonth(year, month) ==
    IF month = 1
    THEN IF year % 4 = 0 /\ (year % 100 # 0 \/ year % 400 = 0) THEN 29 ELSE 28
    ELSE IF month \in {3, 5, 8, 10} THEN 30 ELSE 31

\* date.setMonth(month): a month outside 0..11 moves the year, and a day the
\* month does not have runs over into the next month
setMonth(d, month) ==
    LET months == d.year * 12 + month
        y == months \div 12
        m == months % 12
    IN  IF d.day <= daysInMonth(y, m)
        THEN [d EXCEPT !.year = y, !.month = m]
        ELSE [d EXCEPT !.year = (months + 1) \div 12,
                       !.month = (months + 1) % 12,
                       !.day = d.day - daysInMonth(y, m)]

TimeRanges == {"3M", "6M", "1Y", "ALL"}

rangeInMonths(timeRange) ==
    IF timeRange = "3M" THEN 3
    ELSE IF timeRange = "6M" THEN 6
    ELSE IF timeRange = "1Y" THEN 12
    ELSE 999

\* .filter(t => t.type === type).reduce((sum, t) => sum + t.amount, 0)
RECURSIVE reduceTotal(_, _, _, _)
reduceTotal(transactions, type, k, sum) ==
    IF k > Len(transactions)
    THEN sum
    ELSE reduceTotal(transactions, type, k + 1,
                     IF transactions[k].type = type
                     THEN sum + transactions[k].amount
                     ELSE sum)

\* `${date.getFullYear()}-${String(date.getMonth() + 1).padStart(2, '0')}`
monthKey(date) == <<getFullYear(date), getMonth(date) + 1>>

\* acc[monthKey] of the reduce, created when it is not there
entry(acc, key) ==
    IF key \in DOMAIN acc THEN acc[key] ELSE [income |-> 0, expense |-> 0, balance |-> 0]

\* the reduce counting a transaction that recurs a second time
RECURSIVE monthlyReduce_recurring(_, _, _)
monthlyReduce_recurring(transactions, k, acc) ==
    IF k > Len(transactions)
    THEN acc
    ELSE LET t == transactions[k]
             key == monthKey(NewDate(t.date))
             amount == IF t.recurrence = "none" THEN t.amount ELSE 2 * t.amount
             old == entry(acc, key)
             added == IF t.type = "income"
                      THEN [old EXCEPT !.income = @ + amount]
                      ELSE [old EXCEPT !.expense = @ + amount]
             new == [added EXCEPT !.balance = added.income - added.expense]
         IN  monthlyReduce_recurring(transactions, k + 1,
                                     [x \in DOMAIN acc \cup {key} |->
                                         IF x = key THEN new ELSE acc[x]])

\* filteredTransactions.reduce((acc, t) => { ... }, {})
RECURSIVE monthlyReduce(_, _, _)
monthlyReduce(transactions, k, acc) ==
    IF k > Len(transactions)
    THEN acc
    ELSE LET t == transactions[k]
             key == monthKey(NewDate(t.date))
             old == entry(acc, key)
             added == IF t.type = "income"
                      THEN [old EXCEPT !.income = @ + t.amount]
                      ELSE [old EXCEPT !.expense = @ + t.amount]
             new == [added EXCEPT !.balance = added.income - added.expense]
         IN  monthlyReduce(transactions, k + 1,
                           [x \in DOMAIN acc \cup {key} |->
                               IF x = key THEN new ELSE acc[x]])

\* the stats memo; savingsRate is kept as the pair <<numerator, denominator>>
stats(transactions, timeRange) ==
    LET cutoffDate == setMonth(NewDate(now),
                               getMonth(NewDate(now)) - rangeInMonths(timeRange))
        filteredTransactions ==
            SelectSeq(transactions,
                      LAMBDA t : getTime(NewDate(t.date)) >= getTime(cutoffDate))
        totalIncome == reduceTotal(filteredTransactions, "income", 1, 0)
        totalExpense == reduceTotal(filteredTransactions, "expense", 1, 0)
    IN  [timeRange |-> timeRange,
         cutoffDate |-> cutoffDate,
         totalIncome |-> totalIncome,
         totalExpense |-> totalExpense,
         monthlyData |-> monthlyReduce(filteredTransactions, 1, <<>>),
         savingsRate |-> IF totalIncome > 0
                         THEN <<(totalIncome - totalExpense) * 100, totalIncome>>
                         ELSE <<0, 1>>]

\* the range picker's onValueChange, and the render that computes the memo
\* from the transactions of instance h
setTimeRange(h, value) ==
    /\ chart' = [hook |-> h] @@ stats(closure[h].transactions, value)
    /\ UNCHANGED <<state, closure, storage, loads, writes, result, calls, now,
                   form, alert, file>>

\* ---------------------------------------------------------------- inputs
\* what the consumers pass to the hook
Ids == 1..MaxCalls
BalanceInputs == {1000}
\* the balances the balance card submits when the anchor is set a second time
BalanceUpdates == {1000, 250}
DateInputs == {D_2024_01_01}
ProjectionDates == {D_2024_03_01}
ClockDates == {D_2024_02_01_noon, D_2024_03_01}
DraftInputs ==
    {Transaction(0, "income", 500, D_2024_02_01, "d", "none"),
     Transaction(0, "expense", 200, D_2024_01_01, "d", "monthly")}
\* the drafts submitted when several instances run side by side
SharedDraftInputs ==
    {Transaction(0, "expense", 200, D_2024_01_01, "d", "monthly")}

\* the screens as mounted: empty form fields, no alert, no export file, no stats
InitScreens ==
    /\ form = EmptyForm
    /\ alert = NoAlert
    /\ file = Null
    /\ chart = NoStats

Init ==
    /\ state = [h \in Hooks |-> EmptyState]
    /\ closure = state
    /\ storage = Null
    /\ loads = [h \in Hooks |-> "pending"]
    /\ writes = <<>>
    /\ result = NoResult
    /\ calls = 0
    /\ now = D_2024_02_01_noon
    /\ InitScreens

Next ==
    \/ \E h \in Hooks : render(h)
    \/ \E h \in Hooks : getItemResolve(h)
    \/ \E h \in Hooks : getItemReject(h)
    \/ setItemResolve
    \/ setItemReject
    \/ \E h \in Hooks, t \in SharedDraftInputs : addTransaction(h, t) /\ UNCHANGED screens
    \/ \E h \in Hooks, id \in Ids : deleteTransaction(h, id) /\ UNCHANGED screens
    \/ \E h \in Hooks, b \in BalanceInputs, d \in DateInputs : setInitialBalance(h, b, d) /\ UNCHANGED screens
    \/ \E h \in Hooks, d \in ProjectionDates : setTargetDate(h, d) /\ UNCHANGED screens
    \/ \E h \in Hooks : clearAllData(h) /\ UNCHANGED screens

Spec == Init /\ [][Next]_vars

\* one instance driven through its operations, its queries, and the clock
ScenarioHooks == {"h1"}

NextScenario ==
    \/ \E h \in ScenarioHooks : render(h)
    \/ \E h \in ScenarioHooks : getItemResolve(h)
    \/ \E h \in ScenarioHooks : getItemReject(h)
    \/ setItemResolve
    \/ setItemReject
    \/ \E h \in ScenarioHooks, t \in DraftInputs : addTransaction(h, t) /\ UNCHANGED screens
    \/ \E h \in ScenarioHooks, id \in Ids : deleteTransaction(h, id) /\ UNCHANGED screens
    \/ \E h \in ScenarioHooks, b \in BalanceInputs, d \in DateInputs : setInitialBalance(h, b, d) /\ UNCHANGED screens
    \/ \E h \in ScenarioHooks, d \in ProjectionDates : setTargetDate(h, d) /\ UNCHANGED screens
    \/ \E h \in ScenarioHooks : clearAllData(h) /\ UNCHANGED screens
    \/ \E h \in ScenarioHooks, d \in ProjectionDates : getProjectedBalance(h, d)
    \/ \E h \in ScenarioHooks : getCurrentBalance(h)
    \/ \E later \in ClockDates : Tick(later)

SpecScenario == Init /\ [][NextScenario]_vars

\* one instance driven through its mutations, its renders, its load and its
\* writes, with two drafts and two balances
NextHandlers ==
    \/ \E h \in ScenarioHooks : render(h)
    \/ \E h \in ScenarioHooks : getItemResolve(h)
    \/ \E h \in ScenarioHooks : getItemReject(h)
    \/ setItemResolve
    \/ setItemReject
    \/ \E h \in ScenarioHooks, t \in DraftInputs : addTransaction(h, t) /\ UNCHANGED screens
    \/ \E h \in ScenarioHooks, id \in Ids : deleteTransaction(h, id) /\ UNCHANGED screens
    \/ \E h \in ScenarioHooks, b \in BalanceUpdates, d \in DateInputs : setInitialBalance(h, b, d) /\ UNCHANGED screens
    \/ \E h \in ScenarioHooks, d \in ProjectionDates : setTargetDate(h, d) /\ UNCHANGED screens
    \/ \E h \in ScenarioHooks : clearAllData(h) /\ UNCHANGED screens

SpecHandlers == Init /\ [][NextHandlers]_vars

\* one instance behind the transaction form: what is typed into the fields,
\* the submit button, and the operations that remove transactions
AmountTexts ==
    {<<>>, <<".">>, <<"0">>, <<"2", "0", "0">>, <<"-", "5">>}
DescriptionTexts == {"", "d"}
FormDates == {NewDate(D_2024_01_01)}
FormRecurrences == {"monthly"}

NextForm ==
    \/ \E h \in ScenarioHooks : render(h)
    \/ \E h \in ScenarioHooks : getItemResolve(h)
    \/ \E h \in ScenarioHooks : getItemReject(h)
    \/ setItemResolve
    \/ setItemReject
    \/ \E text \in AmountTexts : onChangeAmount(text)
    \/ \E text \in DescriptionTexts : onChangeDescription(text)
    \/ \E h \in ScenarioHooks, ty \in TransactionType, d \in FormDates, rc \in FormRecurrences :
            handleSubmit(h, ty, d, rc)
    \/ \E h \in ScenarioHooks, id \in Ids : deleteTransaction(h, id) /\ UNCHANGED screens
    \/ \E h \in ScenarioHooks : clearAllData(h) /\ UNCHANGED screens

SpecForm == Init /\ [][NextForm]_vars

\* one instance behind the settings screen: transactions are added elsewhere,
\* the screen clears and exports, and the clock moves on
NextSettings ==
    \/ \E h \in ScenarioHooks : render(h)
    \/ \E h \in ScenarioHooks : getItemResolve(h)
    \/ \E h \in ScenarioHooks : getItemReject(h)
    \/ setItemResolve
    \/ setItemReject
    \/ \E h \in ScenarioHooks, t \in DraftInputs : addTransaction(h, t) /\ UNCHANGED screens
    \/ \E h \in ScenarioHooks : handleClearData(h)
    \/ \E h \in ScenarioHooks, written \in BOOLEAN : handleExportData(h, written)
    \/ \E later \in ClockDates : Tick(later)

SpecSettings == Init /\ [][NextSettings]_vars

\* ---------------------------------------------------------------- pure check
\* every FinanceState over small sets of drafts, as the ledger of every instance
\* initialBalance and initialDate: never set, and set to 1000 on 2024-01-01;
\* and a balance without a date, which the FinanceState type allows
Anchors == {<<0, Null>>, <<1000, Null>>, <<1000, D_2024_01_01>>}

Drafts ==
    {Transaction(0, ty, 200, dt, "d", rc) :
        ty \in TransactionType, dt \in TxDates, rc \in RecurrenceType}

WithIds(drafts) == [k \in DOMAIN drafts |-> [drafts[k] EXCEPT !.id = k]]

Ledgers ==
    {FinanceState(a[1], a[2], WithIds(txs), Null) :
        a \in Anchors,
        txs \in UNION {[1..n -> Drafts] : n \in 0..MaxLen}}

InitBalance ==
    /\ \E l \in Ledgers : state = [h \in Hooks |-> l]
    /\ closure = state
    /\ storage = Null
    /\ loads = [h \in Hooks |-> "done"]
    /\ writes = <<>>
    /\ result = NoResult
    /\ calls = 0
    /\ now = D_2024_02_01_noon
    /\ InitScreens

NextBalance == \E h \in ScenarioHooks, d \in TargetDates : getProjectedBalance(h, d)

SpecBalance == InitBalance /\ [][NextBalance]_vars


\* the charts over every small list of transactions, at two clocks: one whose
\* day every month has, one whose day runs over when the month is set back
D_2024_05_31 == <<2024, 5, 31, 0>>
ChartClocks == {D_2024_02_01_noon, D_2024_05_31}
ChartDates == {D_2020_06_01, D_2023_06_01, D_2023_12_31, D_2024_01_15}
ChartRecurrences == {"none", "monthly"}

ChartDrafts ==
    {Transaction(0, ty, 200, dt, "d", rc) :
        ty \in TransactionType, dt \in ChartDates, rc \in ChartRecurrences}

ChartLedgers ==
    {FinanceState(1000, D_2020_06_01, WithIds(txs), Null) :
        txs \in UNION {[1..n -> ChartDrafts] : n \in 0..MaxLen}}

InitCharts ==
    /\ \E l \in ChartLedgers : state = [h \in Hooks |-> l]
    /\ closure = state
    /\ storage = Null
    /\ loads = [h \in Hooks |-> "done"]
    /\ writes = <<>>
    /\ result = NoResult
    /\ calls = 0
    /\ now \in ChartClocks
    /\ InitScreens

NextCharts == \E h \in ScenarioHooks, value \in TimeRanges : setTimeRange(h, value)

SpecCharts == InitCharts /\ [][NextCharts]_vars


\* ---------------------------------------------------------------- properties
\* a balance query has been made by an instance (a render discards the result,
\* so the instance still reads the ledger the value was computed from)
Queried == result.hook \in Hooks

\* +amount for income, -amount for expense
signedAmount(t) == IF t.type = "income" THEN t.amount ELSE -t.amount

\* date string a is not later than date string b
IsoLE(a, b) ==
    \/ a[1] < b[1]
    \/ a[1] = b[1] /\ a[2] < b[2]
    \/ a[1] = b[1] /\ a[2] = b[2] /\ a[3] < b[3]
    \/ a[1] = b[1] /\ a[2] = b[2] /\ a[3] = b[3] /\ a[4] <= b[4]

\* the ledger without its k-th transaction
Remove(st, k) ==
    [st EXCEPT !.transactions =
        [i \in 1..(Len(st.transactions) - 1) |->
            IF i < k THEN st.transactions[i] ELSE st.transactions[i + 1]]]

\* what the k-th transaction of ledger st adds to the balance at date string d
Contribution(st, k, d) ==
    getBalanceAtDate(st, NewDate(d)) - getBalanceAtDate(Remove(st, k), NewDate(d))

\* what the k-th transaction of the queried ledger added to the value returned
ResultContribution(k) ==
    result.value
        - getBalanceAtDate(Remove(closure[result.hook], k), NewDate(result.targetDate))

\* C1: a ledger whose initialDate is null has balance 0 at every target date,
\* whatever its initialBalance and its transactions
C1_NullAnchorIsZero ==
    (Queried /\ closure[result.hook].initialDate = Null) => result.value = 0

C1_Witness ==
    /\ Queried
    /\ closure[result.hook].initialDate = Null
    /\ closure[result.hook].initialBalance # 0
    /\ closure[result.hook].transactions # <<>>
    /\ result.value = 0

\* C2: with initialDate set, a non-recurring transaction adds its signed amount
\* once when its date is on or before the target date, and nothing when its
\* date is after the target date
C2_OneTimeContribution ==
    (Queried /\ closure[result.hook].initialDate # Null) =>
        LET st == closure[result.hook]
        IN  \A k \in DOMAIN st.transactions : st.transactions[k].recurrence = "none" =>
                ResultContribution(k) =
                    IF IsoLE(st.transactions[k].date, result.targetDate)
                    THEN signedAmount(st.transactions[k]) ELSE 0

C2_Witness ==
    /\ Queried
    /\ LET st == closure[result.hook]
       IN  /\ st.initialDate # Null
           /\ Len(st.transactions) = 2
           /\ \E k \in DOMAIN st.transactions :
                /\ st.transactions[k].recurrence = "none"
                /\ st.transactions[k].date = result.targetDate
                /\ ResultContribution(k) = signedAmount(st.transactions[k])
                /\ ~IsoLE(st.transactions[k].date, D_2024_01_01)
                /\ Contribution(st, k, D_2024_01_01) = 0

\* calendar months from date string s to date string d, day of month ignored
MonthNumbersBetween(s, d) == (d[1] - s[1]) * 12 + (d[2] - s[2])

\* C3: with initialDate set, a monthly transaction adds
\* signedAmount * (monthsBetween(start, target) + 1) when it starts on or before
\* the target date, nothing otherwise; 2024-01-15 projected to 2024-04-01 adds
\* amount * 4
C3_MonthlyContribution ==
    (Queried /\ closure[result.hook].initialDate # Null) =>
        LET st == closure[result.hook]
            d == result.targetDate
        IN  \A k \in DOMAIN st.transactions : st.transactions[k].recurrence = "monthly" =>
                /\ ResultContribution(k) =
                    IF IsoLE(st.transactions[k].date, d)
                    THEN signedAmount(st.transactions[k])
                            * (MonthNumbersBetween(st.transactions[k].date, d) + 1)
                    ELSE 0
                /\ (st.transactions[k].date = D_2024_01_15 /\ d = D_2024_04_01) =>
                        ResultContribution(k) = signedAmount(st.transactions[k]) * 4

C3_Witness ==
    /\ Queried
    /\ result.targetDate = D_2024_04_01
    /\ LET st == closure[result.hook]
       IN  /\ st.initialDate # Null
           /\ Len(st.transactions) = 1
           /\ st.transactions[1].recurrence = "monthly"
           /\ st.transactions[1].date = D_2024_01_15
           /\ result.value = st.initialBalance + 4 * signedAmount(st.transactions[1])

\* C4: with initialDate set, a yearly transaction adds
\* signedAmount * (targetYear - startYear + 1) when it starts on or before the
\* target date, nothing otherwise; 2020-06-01 projected to 2023-06-01 adds
\* amount * 4
C4_YearlyContribution ==
    (Queried /\ closure[result.hook].initialDate # Null) =>
        LET st == closure[result.hook]
            d == result.targetDate
        IN  \A k \in DOMAIN st.transactions : st.transactions[k].recurrence = "yearly" =>
                /\ ResultContribution(k) =
                    IF IsoLE(st.transactions[k].date, d)
                    THEN signedAmount(st.transactions[k])
                            * ((d[1] - st.transactions[k].date[1]) + 1)
                    ELSE 0
                /\ (st.transactions[k].date = D_2020_06_01 /\ d = D_2023_06_01) =>
                        ResultContribution(k) = signedAmount(st.transactions[k]) * 4

C4_Witness ==
    /\ Queried
    /\ result.targetDate = D_2023_06_01
    /\ LET st == closure[result.hook]
       IN  /\ st.initialDate # Null
           /\ Len(st.transactions) = 1
           /\ st.transactions[1].recurrence = "yearly"
           /\ st.transactions[1].date = D_2020_06_01
           /\ result.value = st.initialBalance + 4 * signedAmount(st.transactions[1])

\* the ledger the scenario builds: anchor 1000 on 2024-01-01, then an income of
\* 500 on 2024-02-01, then a monthly expense of 200 from 2024-01-01
ScenarioLedger(st) ==
    /\ st.initialBalance = 1000
    /\ st.initialDate = D_2024_01_01
    /\ Len(st.transactions) = 2
    /\ st.transactions[1].type = "income"
    /\ st.transactions[1].amount = 500
    /\ st.transactions[1].date = D_2024_02_01
    /\ st.transactions[1].recurrence = "none"
    /\ st.transactions[2].type = "expense"
    /\ st.transactions[2].amount = 200
    /\ st.transactions[2].date = D_2024_01_01
    /\ st.transactions[2].recurrence = "monthly"

\* C5: after setInitialBalance(1000, 2024-01-01), addTransaction(income 500 on
\* 2024-02-01) and addTransaction(monthly expense 200 from 2024-01-01) on an
\* instance, the balance at 2024-03-01 is 1000 + 500 - 200*3 = 900
C5_Scenario ==
    \A h \in Hooks : ScenarioLedger(closure[h]) =>
        /\ getBalanceAtDate(closure[h], NewDate(D_2024_03_01)) = 900
        /\ (result.hook = h /\ result.targetDate = D_2024_03_01) => result.value = 900

C5_Witness ==
    /\ calls = 3
    /\ Queried
    /\ ScenarioLedger(closure[result.hook])
    /\ result.targetDate = D_2024_03_01
    /\ result.value = 900

\* the contribution rules of the balance projection, on date strings
RuleContribution(t, d) ==
    IF ~IsoLE(t.date, d) THEN 0
    ELSE CASE t.recurrence = "none" -> signedAmount(t)
           [] t.recurrence = "monthly" ->
                signedAmount(t) * (MonthNumbersBetween(t.date, d) + 1)
           [] t.recurrence = "yearly" ->
                signedAmount(t) * ((d[1] - t.date[1]) + 1)

RECURSIVE SumContributions(_, _, _)
SumContributions(transactions, k, d) ==
    IF k > Len(transactions) THEN 0
    ELSE RuleContribution(transactions[k], d) + SumContributions(transactions, k + 1, d)

\* the ledger with its transactions reordered by the permutation p
Permuted(st, p) ==
    [st EXCEPT !.transactions = [i \in DOMAIN st.transactions |-> st.transactions[p[i]]]]

C7_EmptyLedger ==
    ( /\ Queried
      /\ closure[result.hook].initialDate # Null
      /\ closure[result.hook].transactions = <<>> )
        => result.value = closure[result.hook].initialBalance

C7_Witness ==
    /\ Queried
    /\ LET st == closure[result.hook]
       IN  /\ st.initialDate # Null
           /\ st.transactions = <<>>
           /\ st.initialBalance # 0
           /\ ~IsoLE(st.initialDate, result.targetDate)
           /\ result.value = st.initialBalance
           /\ \E d \in TargetDates :
                /\ IsoLE(st.initialDate, d)
                /\ getBalanceAtDate(st, NewDate(d)) = st.initialBalance

\* C8: a monthly or yearly transaction that starts exactly at the target date
\* adds exactly one occurrence, its signed amount
C8_StartEqualsTarget ==
    (Queried /\ closure[result.hook].initialDate # Null) =>
        LET st == closure[result.hook]
        IN  \A k \in DOMAIN st.transactions :
                ( /\ st.transactions[k].recurrence # "none"
                  /\ st.transactions[k].date = result.targetDate )
                    => ResultContribution(k) = signedAmount(st.transactions[k])

C8_Witness ==
    /\ Queried
    /\ LET st == closure[result.hook]
       IN  /\ st.initialDate # Null
           /\ Len(st.transactions) = 2
           /\ st.transactions[1].recurrence = "monthly"
           /\ st.transactions[2].recurrence = "yearly"
           /\ st.transactions[1].date = result.targetDate
           /\ st.transactions[2].date = result.targetDate
           /\ result.value = st.initialBalance + signedAmount(st.transactions[1])
                                + signedAmount(st.transactions[2])

\* C9: periods are counted on calendar numbers, not on elapsed days: a monthly
\* transaction from Jan 31 projected to Feb 1 adds 2 occurrences, and a yearly
\* transaction from Dec 31 projected to Jan 1 of the next year adds 2
C9_CalendarCounting ==
    (Queried /\ closure[result.hook].initialDate # Null) =>
        LET st == closure[result.hook]
        IN  \A k \in DOMAIN st.transactions :
                /\ ( /\ st.transactions[k].recurrence = "monthly"
                     /\ st.transactions[k].date = D_2024_01_31_noon
                     /\ result.targetDate = D_2024_02_01 )
                        => ResultContribution(k) = 2 * signedAmount(st.transactions[k])
                /\ ( /\ st.transactions[k].recurrence = "yearly"
                     /\ st.transactions[k].date = D_2023_12_31
                     /\ result.targetDate = D_2024_01_01 )
                        => ResultContribution(k) = 2 * signedAmount(st.transactions[k])

C9_Witness ==
    /\ Queried
    /\ result.targetDate = D_2024_02_01
    /\ LET st == closure[result.hook]
       IN  /\ st.initialDate # Null
           /\ Len(st.transactions) = 2
           /\ st.transactions[1].recurrence = "monthly"
           /\ st.transactions[1].date = D_2024_01_31_noon
           /\ st.transactions[2].recurrence = "yearly"
           /\ st.transactions[2].date = D_2023_12_31
           /\ Contribution(st, 2, D_2024_01_01) = 2 * signedAmount(st.transactions[2])
           /\ result.value = st.initialBalance + 2 * signedAmount(st.transactions[1])
                                + 2 * signedAmount(st.transactions[2])

\* C10: a balance query changes neither the in-memory ledger nor the stored
\* one, and asking again for the same target date on the same ledger gives the
\* same value, whatever the clock reads
C10_PureDeterministic ==
    [][(result' # result /\ result'.hook \in Hooks) =>
            /\ state' = state
            /\ closure' = closure
            /\ storage' = storage
            /\ writes' = writes
            /\ (result.hook = result'.hook /\ result.targetDate = result'.targetDate)
                    => result'.value = result.value]_vars

C10_Witness ==
    /\ Queried
    /\ now = D_2024_03_01
    /\ result.targetDate # now
    /\ ScenarioLedger(closure[result.hook])
    /\ result.value = getBalanceAtDate(closure[result.hook], NewDate(result.targetDate))
    /\ result.value # getBalanceAtDate(closure[result.hook], NewDate(now))

\* ---------------------------------------------------------------- ledger properties
\* the transactions of a ledger, as a set
Transactions(st) == {st.transactions[k] : k \in DOMAIN st.transactions}

\* no two transactions of the ledger share an id
UniqueIds(st) ==
    \A i, j \in DOMAIN st.transactions :
        st.transactions[i].id = st.transactions[j].id => i = j

\* the ledger that storage holds
Persisted == JSONparse(storage)

\* every transaction that exists: in the memory of an instance, captured by its
\* handlers, stored, or on its way to storage
Known ==
    UNION ( {Transactions(state[h]) : h \in Hooks}
            \cup {Transactions(closure[h]) : h \in Hooks}
            \cup {Transactions(JSONparse(writes[k])) : k \in DOMAIN writes}
            \cup (IF storage = Null THEN {} ELSE {Transactions(Persisted)}) )

\* C11: in every ledger, in memory and persisted, no two transactions share an
\* id; and a step never changes the id of a transaction: each transaction of
\* the next ledger is a transaction that existed, id included, or carries an
\* id that no existing transaction has
C11_IdsUniqueAndImmutable ==
    /\ [](/\ \A h \in Hooks : UniqueIds(state[h])
          /\ storage # Null => UniqueIds(Persisted))
    /\ [][\A h \in Hooks : state'[h] # state[h] =>
            \A t \in Transactions(state'[h]) :
                \/ t \in Known
                \/ t.id \notin {k.id : k \in Known}]_vars

C11_Witness ==
    \E h \in Hooks :
        /\ Len(state[h].transactions) = 2
        /\ state[h].transactions[1].id # state[h].transactions[2].id
        /\ storage # Null
        /\ Len(Persisted.transactions) = 2
        /\ calls = MaxCalls

\* the anchor of a ledger
Anchor(st) == <<st.initialBalance, st.initialDate>>

\* the draft a transaction was made from: everything but its id
DraftOf(t) == [t EXCEPT !.id = 0]

\* the ledger has a transaction with this id
HasId(st, id) == \E k \in DOMAIN st.transactions : st.transactions[k].id = id

\* C12: addTransaction on the ledger the handler reads gives a ledger with
\* exactly one more transaction, the last one, carrying the type, amount, date,
\* description and recurrence of the draft; the transactions before it are the
\* old ones in their order, and the anchor is the old one
C12_AddAppendsOne ==
    [][\A h \in Hooks, t \in DraftInputs :
        addTransaction(h, t) =>
            LET old == closure[h]
                new == state'[h]
                n == Len(old.transactions)
            IN  /\ Len(new.transactions) = n + 1
                /\ DraftOf(new.transactions[n + 1]) = t
                /\ SubSeq(new.transactions, 1, n) = old.transactions
                /\ Anchor(new) = Anchor(old)]_vars

C12_Witness ==
    \E h \in Hooks :
        /\ Len(closure[h].transactions) = 1
        /\ Len(state[h].transactions) = 2
        /\ state[h].transactions[1] = closure[h].transactions[1]
        /\ DraftOf(state[h].transactions[1]).recurrence = "none"
        /\ DraftOf(state[h].transactions[2]).recurrence = "monthly"
        /\ Anchor(state[h]) = Anchor(closure[h])
        /\ state[h].initialDate # Null

\* C13: deleteTransaction(id) on a ledger that has a transaction with that id
\* gives the ledger without that transaction: the others keep their content
\* and order, and the anchor is the old one
C13_DeleteRemovesOne ==
    [][\A h \in Hooks, id \in Ids :
        (deleteTransaction(h, id) /\ HasId(closure[h], id)) =>
            LET old == closure[h]
                new == state'[h]
                k == CHOOSE i \in DOMAIN old.transactions : old.transactions[i].id = id
            IN  /\ new.transactions = Remove(old, k).transactions
                /\ ~HasId(new, id)
                /\ Anchor(new) = Anchor(old)]_vars

C13_Witness ==
    \E h \in Hooks :
        /\ Len(closure[h].transactions) = 2
        /\ Len(state[h].transactions) = 1
        /\ state[h].transactions[1] = closure[h].transactions[2]
        /\ Anchor(state[h]) = Anchor(closure[h])
        /\ writes = <<JSONstringify(state[h])>>

\* C14: deleteTransaction with an id that no transaction of the ledger has
\* completes, and the resulting ledger, in memory and as handed to storage, is
\* equal to the ledger the handler read
C14_DeleteUnknownIsNoOp ==
    [][\A h \in Hooks, id \in Ids :
        (deleteTransaction(h, id) /\ ~HasId(closure[h], id)) =>
            /\ state'[h] = closure[h]
            /\ JSONparse(writes'[Len(writes')]) = closure[h]]_vars

\* the second call deleted an id that the one transaction of the ledger, added
\* by the first call, does not have
C14_Witness ==
    \E h \in Hooks :
        /\ calls = 2
        /\ Len(state[h].transactions) = 1
        /\ state[h].transactions[1].id = 1
        /\ state[h].initialDate = Null
        /\ state[h].targetDate = Null
        /\ closure[h] = state[h]
        /\ storage = JSONstringify(state[h])
        /\ writes = <<JSONstringify(state[h])>>

\* C15: setInitialBalance(amount, date) sets initialBalance and initialDate to
\* its arguments, whether the ledger had an anchor or not, and the transaction
\* list is the old one
C15_SetInitialBalanceOverwrites ==
    [][\A h \in Hooks, b \in BalanceUpdates, d \in DateInputs :
        setInitialBalance(h, b, d) =>
            /\ Anchor(state'[h]) = <<b, d>>
            /\ state'[h].transactions = closure[h].transactions]_vars

\* an anchor that was set is replaced by another, on a ledger with a transaction
C15_Witness ==
    \E h \in Hooks :
        /\ closure[h].initialDate # Null
        /\ state[h].initialDate # Null
        /\ state[h].initialBalance # closure[h].initialBalance
        /\ state[h].transactions = closure[h].transactions
        /\ state[h].transactions # <<>>

\* C16: clearAllData gives the empty initial state whatever the ledger was,
\* and the current balance of that state is 0
C16_ClearAllGivesEmpty ==
    [][\A h \in Hooks :
        clearAllData(h) =>
            /\ state'[h] = EmptyState
            /\ getBalanceAtDate(state'[h], NewDate(now)) = 0]_vars

\* a ledger with an anchor, a transaction and a balance other than 0 is cleared
C16_Witness ==
    \E h \in Hooks :
        /\ closure[h].initialDate # Null
        /\ closure[h].transactions # <<>>
        /\ getBalanceAtDate(closure[h], NewDate(now)) # 0
        /\ state[h] = EmptyState
        /\ getBalanceAtDate(state[h], NewDate(now)) = 0
        /\ writes = <<JSONstringify(EmptyState)>>

\* C17: after a mutation whose write succeeded, the persisted snapshot holds
\* every transaction added and not deleted so far, whichever instance issued
\* the mutations.  Stated on two calls: instance a added transaction 1 with the
\* first call, instance b set the initial balance with the second, both have
\* loaded, and b's write is the one in storage; then storage still has
\* transaction 1
C17_PersistedComplete ==
    \A a, b \in Hooks :
        ( /\ a # b
          /\ calls = 2
          /\ \A h \in Hooks : loads[h] = "done"
          /\ Len(state[a].transactions) = 1
          /\ state[a].transactions[1].id = 1
          /\ Anchor(state[a]) = Anchor(EmptyState)
          /\ state[b].initialDate # Null
          /\ state[b].targetDate = Null
          /\ writes = <<>>
          /\ storage = JSONstringify(state[b]) )
        => HasId(Persisted, 1)

\* C18: once every instance has loaded and rendered, all of them show the same
\* transactions, initialBalance and initialDate, whatever mutations were made
\* and through whichever instance
C18_SharedInstance ==
    (\A h \in Hooks : loads[h] = "done" /\ closure[h] = state[h]) =>
        \A a, b \in Hooks :
            /\ closure[a].transactions = closure[b].transactions
            /\ Anchor(closure[a]) = Anchor(closure[b])

\* C19: what a handler hands to storage parses back to the ledger it saved;
\* storage changes only to the oldest write in flight; a finished load leaves
\* the instance with the stored ledger, or, when nothing was stored or the
\* load failed, with the ledger it had, which is the empty default state as
\* long as no mutation was made
C19_LoadReturnsLastSaved ==
    /\ [][calls' = calls + 1 =>
            /\ \E h \in Hooks : state'[h] = JSONparse(writes'[Len(writes')])
            /\ \A h \in Hooks : state'[h] # state[h] =>
                    state'[h] = JSONparse(writes'[Len(writes')])]_vars
    /\ [][storage' # storage => (writes # <<>> /\ storage' = Head(writes))]_vars
    /\ [][\A h \in Hooks : (loads[h] = "pending" /\ loads'[h] = "done") =>
            /\ storage = Null => state'[h] = state[h]
            /\ storage # Null => state'[h] \in {state[h], Persisted}
            /\ (storage = Null /\ calls = 0) => state'[h] = EmptyState]_vars

\* an instance that made no mutation holds the ledger, anchor and transaction,
\* that another instance saved
C19_Witness ==
    \E a, b \in Hooks :
        /\ a # b
        /\ loads[b] = "done"
        /\ storage # Null
        /\ state[b] = Persisted
        /\ state[b] = state[a]
        /\ state[b].initialDate # Null
        /\ state[b].transactions # <<>>
        /\ closure[b] = EmptyState

\* a write in flight is dropped without reaching storage
FailedWrite ==
    /\ writes # <<>>
    /\ writes' = Tail(writes)
    /\ storage' # Head(writes)

\* C20: a failed write changes nothing in memory: the ledger of every instance
\* stays the one its mutations set, nothing is raised into a handler, and a
\* balance is the balance of the in-memory ledger, not of the stored one
C20_FailedWriteKeepsMemory ==
    /\ [][FailedWrite => (state' = state /\ closure' = closure /\ result' = result)]_vars
    /\ [](Queried =>
            result.value = getBalanceAtDate(closure[result.hook],
                                            NewDate(result.targetDate)))

\* every write failed, and the balance is that of the ledger in memory
C20_Witness ==
    /\ Queried
    /\ calls >= 2
    /\ storage = Null
    /\ writes = <<>>
    /\ closure[result.hook].initialDate # Null
    /\ closure[result.hook].transactions # <<>>
    /\ result.value # 0
    /\ result.value = getBalanceAtDate(closure[result.hook], NewDate(result.targetDate))

\* C26: the stored targetDate takes no part in a balance: the value returned
\* is the one the same ledger with any other targetDate field gives; and
\* setTargetDate stores its argument and leaves initialBalance, initialDate
\* and the transactions as they were
C26_TargetDateNoInterference ==
    /\ [](Queried =>
            \A d \in ProjectionDates \cup {Null} :
                getBalanceAtDate([closure[result.hook] EXCEPT !.targetDate = d],
                                 NewDate(result.targetDate)) = result.value)
    /\ [][\A h \in Hooks, d \in ProjectionDates :
            setTargetDate(h, d) =>
                /\ state'[h].targetDate = d
                /\ Anchor(state'[h]) = Anchor(closure[h])
                /\ state'[h].transactions = closure[h].transactions]_vars

\* a balance asked for another date than the stored targetDate, on a ledger
\* whose balance at the stored targetDate is a different one
C26_Witness ==
    /\ Queried
    /\ closure[result.hook].targetDate # Null
    /\ closure[result.hook].targetDate # result.targetDate
    /\ closure[result.hook].initialDate # Null
    /\ closure[result.hook].transactions # <<>>
    /\ result.value = getBalanceAtDate(closure[result.hook], NewDate(result.targetDate))
    /\ result.value # getBalanceAtDate(closure[result.hook],
                                       NewDate(closure[result.hook].targetDate))

\* dates an anchor may carry
InitialDateValues == {D_2020_06_01, D_2024_01_01, D_2024_04_01}

\* C30: once initialDate is set its value has no influence: the value returned
\* is the one the same ledger with any other initialDate gives, so that a
\* transaction dated before initialDate counts as any other
C30_InitialDateNoInterference ==
    (Queried /\ closure[result.hook].initialDate # Null) =>
        \A d \in InitialDateValues :
            getBalanceAtDate([closure[result.hook] EXCEPT !.initialDate = d],
                             NewDate(result.targetDate)) = result.value

\* a transaction dated before initialDate has added its amount to the balance
C30_Witness ==
    /\ Queried
    /\ LET st == closure[result.hook]
       IN  /\ st.initialDate = D_2024_01_01
           /\ Len(st.transactions) = 1
           /\ st.transactions[1].date = D_2023_12_31
           /\ st.transactions[1].recurrence = "none"
           /\ result.targetDate = D_2024_02_01
           /\ result.value = st.initialBalance + signedAmount(st.transactions[1])
           /\ result.value = getBalanceAtDate([st EXCEPT !.initialDate = D_2024_04_01],
                                              NewDate(result.targetDate))

\* the handlers of instance h have just removed transaction id from the ledger
\* they read: the render has not happened yet and the snapshot is the newest
\* write
JustDeleted(h, id) ==
    /\ HasId(closure[h], id)
    /\ state[h] = [closure[h] EXCEPT !.transactions = filter(closure[h].transactions, id)]
    /\ writes # <<>>
    /\ writes[Len(writes)] = JSONstringify(state[h])

\* C23: deletion is permanent: a transaction that deleteTransaction has just
\* removed is not in the in-memory ledger after the next step either, and is
\* not in storage once the snapshot of the deletion has been written
C23_DeletionPermanent ==
    [][\A h \in Hooks, id \in Ids :
        JustDeleted(h, id) =>
            /\ ~HasId(state'[h], id)
            /\ (storage' = JSONstringify(state[h]) => ~HasId(JSONparse(storage'), id))]_vars

\* C28: no mutation is lost when two are made one after the other, rendered in
\* between or not.  Stated on two calls: the first added transaction 1, which
\* reached storage, and the second added transaction 2; then every ledger and
\* every snapshot that has transaction 2 has transaction 1 as well
C28_NoLostMutation ==
    (calls = 2 /\ storage # Null /\ HasId(Persisted, 1)) =>
        /\ \A h \in Hooks : HasId(state[h], 2) => HasId(state[h], 1)
        /\ \A k \in DOMAIN writes :
                HasId(JSONparse(writes[k]), 2) => HasId(JSONparse(writes[k]), 1)

\* C29: a mutation made while the startup load is in flight is kept: the step
\* that completes the load of an instance removes no transaction from its
\* ledger, and the snapshot written by an addTransaction that a rendered
\* instance makes while its load is in flight still has every stored
\* transaction
C29_MutationBeforeLoadKept ==
    /\ [][\A h \in Hooks : (loads[h] = "pending" /\ loads'[h] = "done") =>
            Transactions(state[h]) \subseteq Transactions(state'[h])]_vars
    /\ [][\A h \in Hooks :
            ( /\ loads[h] = "pending"
              /\ closure[h] = state[h]
              /\ storage # Null
              /\ calls' = calls + 1
              /\ HasId(state'[h], calls') ) =>
                Transactions(Persisted)
                    \subseteq Transactions(JSONparse(writes'[Len(writes')]))]_vars

\* the amount texts that write a positive number: digits with at most one
\* point among them, one digit at least not a zero
PositiveAmountTexts ==
    {text \in AmountTexts :
        /\ \A i \in 1..Len(text) : text[i] \in Digits \cup {"."}
        /\ Cardinality({i \in 1..Len(text) : text[i] = "."}) <= 1
        /\ \E i \in 1..Len(text) : text[i] \in Digits \ {"0"}}

\* the draft in the form has no amount, an amount that is not a positive
\* number, or no description
InvalidDraft ==
    \/ form.amount \notin PositiveAmountTexts
    \/ form.description = ""

\* C21: submitting a draft whose amount is empty, not a number or not positive,
\* or whose description is empty, calls no mutation: the ledgers, storage and
\* the writes in flight stay as they are, and the form shows an error text
C21_InvalidDraftRejected ==
    [][\A h \in Hooks, ty \in TransactionType, d \in FormDates, rc \in FormRecurrences :
        (form' # form /\ InvalidDraft /\ handleSubmit(h, ty, d, rc)) =>
            /\ state' = state
            /\ closure' = closure
            /\ storage' = storage
            /\ writes' = writes
            /\ calls' = calls
            /\ form'.error # ""]_vars

\* an amount that is no number was turned away on a ledger that has a
\* transaction, stored as it is
C21_Witness ==
    /\ form.amount = <<".">>
    /\ form.description = "d"
    /\ form.error = "Please enter a valid positive amount"
    /\ \E h \in Hooks :
        /\ state[h].transactions # <<>>
        /\ storage = JSONstringify(state[h])
        /\ writes = <<>>

\* C22: every transaction, in memory, stored or being written, has an amount
\* above 0, and what it adds to a balance is above 0 for an income and below 0
\* for an expense
C22_AmountsPositive ==
    \A t \in Known :
        /\ t.amount > 0
        /\ LET v == getBalanceAtDate(FinanceState(0, t.date, <<t>>, Null), NewDate(t.date))
           IN  /\ t.type = "income" => v > 0
               /\ t.type = "expense" => v < 0

\* an income and an expense of 200.00 went through the form and are stored
C22_Witness ==
    \E h \in Hooks :
        /\ Len(state[h].transactions) = 2
        /\ state[h].transactions[1].type = "income"
        /\ state[h].transactions[2].type = "expense"
        /\ \A t \in Transactions(state[h]) : t.amount = 20000 /\ t.description = "d"
        /\ storage = JSONstringify(state[h])

\* C24: confirming 'Clear All Data' leaves the instance with the empty initial
\* state, puts the empty state on its way to storage, and reports success
C24_ClearDataClears ==
    [][\A h \in Hooks :
        handleClearData(h) =>
            /\ state'[h] = EmptyState
            /\ writes' # <<>>
            /\ writes'[Len(writes')] = JSONstringify(EmptyState)
            /\ alert' = "Success"]_vars

\* the titles of the alerts of an export
ExportTitles == {"Export Successful", "Export Failed"}

\* C25: a step that writes the export file or shows an export alert leaves the
\* ledger of every instance, storage and the writes in flight as they are, and
\* an export whose file cannot be written ends in the 'Export Failed' alert
C25_ExportLeavesLedger ==
    [][/\ (file' # file \/ (alert' # alert /\ alert' \in ExportTitles)) =>
            /\ state' = state
            /\ closure' = closure
            /\ storage' = storage
            /\ writes' = writes
       /\ \A h \in Hooks :
            handleExportData(h, FALSE) => alert' = "Export Failed" /\ file' = file]_vars

\* an export was written, a later one failed, and the ledger with its
\* transaction is in memory and stored
C25_Witness ==
    /\ alert = "Export Failed"
    /\ file # Null
    /\ Len(file.dataStr.transactions) = 1
    /\ \E h \in Hooks :
        /\ Len(state[h].transactions) = 1
        /\ closure[h] = state[h]
        /\ storage = JSONstringify(state[h])
        /\ writes = <<>>

\* the stats have been computed for an instance
Charted == chart.hook \in Hooks

\* the positions of the transactions the stats count: those dated at the
\* cutoff or later
Counted ==
    {k \in DOMAIN closure[chart.hook].transactions :
        IsoLE(toISOString(chart.cutoffDate), closure[chart.hook].transactions[k].date)}

\* the year and month a date string names
MonthOf(date) == <<date[1], date[2]>>

\* the sum of the amounts of the transactions at the positions ks
RECURSIVE SumAmounts(_, _)
SumAmounts(transactions, ks) ==
    IF ks = {}
    THEN 0
    ELSE LET k == CHOOSE x \in ks : TRUE
         IN  transactions[k].amount + SumAmounts(transactions, ks \ {k})

\* C27: the months of the chart are the months the counted transactions are
\* dated in; a month's income is the sum of the amounts of the counted incomes
\* dated in it, each taken once whatever its recurrence, its expense the same
\* for the expenses, and its balance income minus expense
C27_MonthlyAggregation ==
    Charted =>
        LET transactions == closure[chart.hook].transactions
        IN  /\ DOMAIN chart.monthlyData = {MonthOf(transactions[k].date) : k \in Counted}
            /\ \A key \in DOMAIN chart.monthlyData :
                /\ chart.monthlyData[key].income =
                       SumAmounts(transactions,
                                  {k \in Counted : /\ MonthOf(transactions[k].date) = key
                                                   /\ transactions[k].type = "income"})
                /\ chart.monthlyData[key].expense =
                       SumAmounts(transactions,
                                  {k \in Counted : /\ MonthOf(transactions[k].date) = key
                                                   /\ transactions[k].type = "expense"})
                /\ chart.monthlyData[key].balance =
                       chart.monthlyData[key].income - chart.monthlyData[key].expense

\* a monthly income of December and a monthly expense of June, charted on
\* 2024-05-31 over six months: December holds the income once, June is not
\* in the chart
C27_Witness ==
    /\ Charted
    /\ now = D_2024_05_31
    /\ chart.timeRange = "6M"
    /\ \E i, j \in DOMAIN closure[chart.hook].transactions :
        /\ closure[chart.hook].transactions[i] =
               Transaction(i, "income", 200, D_2023_12_31, "d", "monthly")
        /\ closure[chart.hook].transactions[j] =
               Transaction(j, "expense", 200, D_2023_06_01, "d", "monthly")
    /\ Len(closure[chart.hook].transactions) = 2
    /\ chart.monthlyData = (<<2023, 12>> :> [income |-> 200, expense |-> 0, balance |-> 200])

====
